---- MODULE Spec2Model ----
(***************************************************************************)
(* Model of golang-service/client/dummyclient.go: the client of the SGX     *)
(* decryption service.  main() is one sequential run; pc is its position.  *)
(* Strings are sequences of one-character strings, byte slices are          *)
(* sequences of 0..255.  Inputs of the run (RPC responses, the lines of     *)
(* the two fixture files, I/O failures) are chosen by the environment.      *)
(***************************************************************************)
EXTENDS Integers, Sequences, FiniteSets, TLC

(* ---------------- bounds of the model ---------------- *)
\* lines the records.csv scanner yields at most
MaxRecords == 2
\* lines the records_proofs.csv scanner yields at most
MaxProofs == 2

(* ---------------- program constants ---------------- *)
rsaSpecTest == FALSE
\* ctSum := [32]byte{} ; map[[32]byte][]byte
SumLen == 32
\* len("Decrypt RPC successfull (OAEP padding)")
OAEPSampleLen == 38
\* len("Decrypt RPC successfull (PKCS1v15 padding)")
PKCS1v15SampleLen == 42
\* sha256.Size, the hLen of EncryptOAEP(sha256.New(), ...)
HashLen == 32
\* hex.EncodeToString(rth.Sig[:31])
SigPrefix == 31

\* []byte("aaaaaaaaa")
SentNonce == <<97, 97, 97, 97, 97, 97, 97, 97, 97>>

(* ---------------- byte and string helpers ---------------- *)
Zeros(n) == [i \in 1..n |-> 0]

\* sha256.Sum256, idealised: an injective, length-SumLen, never all-zero
\* encoding of inputs shorter than SumLen bytes (no collisions, as assumed of
\* SHA-256).
Sha256(b) == <<Len(b) + 1>> \o b \o Zeros(SumLen - 1 - Len(b))

HexDigits == <<"0", "1", "2", "3", "4", "5", "6", "7", "8", "9", "a", "b", "c", "d", "e", "f">>
HexUpper == <<"0", "1", "2", "3", "4", "5", "6", "7", "8", "9", "A", "B", "C", "D", "E", "F">>

\* encoding/hex fromHexChar: the value of a hex digit, -1 when it is none
FromHexChar(c) ==
    IF \E i \in 1..16 : HexDigits[i] = c
    THEN (CHOOSE i \in 1..16 : HexDigits[i] = c) - 1
    ELSE IF \E i \in 1..16 : HexUpper[i] = c
    THEN (CHOOSE i \in 1..16 : HexUpper[i] = c) - 1
    ELSE -1

\* hex.EncodeToString
HexEncode(b) ==
    [i \in 1..(2 * Len(b)) |->
        IF i % 2 = 1 THEN HexDigits[(b[(i + 1) \div 2] \div 16) + 1]
                     ELSE HexDigits[(b[i \div 2] % 16) + 1]]

\* number of leading whole byte pairs of s that are valid hex
RECURSIVE HexGoodPairs(_, _)
HexGoodPairs(s, k) ==
    IF 2 * k + 2 <= Len(s) /\ FromHexChar(s[2 * k + 1]) >= 0 /\ FromHexChar(s[2 * k + 2]) >= 0
    THEN HexGoodPairs(s, k + 1)
    ELSE k

HexBytes(s, n) == [i \in 1..n |-> 16 * FromHexChar(s[2 * i - 1]) + FromHexChar(s[2 * i])]

\* hex.DecodeString.  On an invalid digit or an odd length it returns an error;
\* with it, the bytes decoded before the error (Go >= 1.10, prefix = TRUE) or a
\* nil slice (earlier releases, prefix = FALSE).
HexDecodeString(s, prefix) ==
    LET n == HexGoodPairs(s, 0)
        ok == 2 * n = Len(s)
    IN  [bytes |-> IF ok \/ prefix THEN HexBytes(s, n) ELSE <<>>, err |-> ~ok]

\* copy(ctSum[:], ctSumSlice) into a zeroed [32]byte
CopyToSum(slice) == [i \in 1..SumLen |-> IF i <= Len(slice) THEN slice[i] ELSE 0]

B64Alphabet ==
    <<"A", "B", "C", "D", "E", "F", "G", "H", "I", "J", "K", "L", "M", "N", "O", "P",
      "Q", "R", "S", "T", "U", "V", "W", "X", "Y", "Z", "a", "b", "c", "d", "e", "f",
      "g", "h", "i", "j", "k", "l", "m", "n", "o", "p", "q", "r", "s", "t", "u", "v",
      "w", "x", "y", "z", "0", "1", "2", "3", "4", "5", "6", "7", "8", "9", "+", "/">>

B64Val(c) ==
    IF \E i \in 1..64 : B64Alphabet[i] = c
    THEN (CHOOSE i \in 1..64 : B64Alphabet[i] = c) - 1
    ELSE -1

\* one 4-character quantum of base64.StdEncoding; last tells whether padding
\* may appear in it
B64Quad(q, last) ==
    LET a == B64Val(q[1])
        b == B64Val(q[2])
        c == B64Val(q[3])
        d == B64Val(q[4])
        v == a * 262144 + b * 4096 + (IF c >= 0 THEN c ELSE 0) * 64 + (IF d >= 0 THEN d ELSE 0)
    IN  IF a < 0 \/ b < 0 THEN [bytes |-> <<>>, err |-> TRUE]
        ELSE IF c >= 0 /\ d >= 0
        THEN [bytes |-> <<v \div 65536, (v \div 256) % 256, v % 256>>, err |-> FALSE]
        ELSE IF last /\ c >= 0 /\ q[4] = "="
        THEN [bytes |-> <<v \div 65536, (v \div 256) % 256>>, err |-> FALSE]
        ELSE IF last /\ q[3] = "=" /\ q[4] = "="
        THEN [bytes |-> <<v \div 65536>>, err |-> FALSE]
        ELSE [bytes |-> <<>>, err |-> TRUE]

\* base64.StdEncoding.DecodeString: the decoded bytes and whether it failed
\* (CorruptInputError); on failure the bytes decoded so far.
RECURSIVE Base64Decode(_)
Base64Decode(s) ==
    IF Len(s) = 0 THEN [bytes |-> <<>>, err |-> FALSE]
    ELSE IF Len(s) < 4 THEN [bytes |-> <<>>, err |-> TRUE]
    ELSE LET q == B64Quad(SubSeq(s, 1, 4), Len(s) = 4)
         IN  IF q.err THEN q
             ELSE LET rest == Base64Decode(SubSeq(s, 5, Len(s)))
                  IN  [bytes |-> q.bytes \o rest.bytes, err |-> rest.err]

\* strings.Split(s, sep) for a one-character separator: always at least one
\* field
RECURSIVE Split(_, _)
Split(s, sep) ==
    IF \A i \in 1..Len(s) : s[i] # sep THEN <<s>>
    ELSE LET k == CHOOSE i \in 1..Len(s) : s[i] = sep /\ \A j \in 1..(i - 1) : s[j] # sep
         IN  <<SubSeq(s, 1, k - 1)>> \o Split(SubSeq(s, k + 1, Len(s)), sep)

\* ct := ctDB[ctSum]: the zero value (a nil slice) for an absent key
MapGet(db, k) == IF k \in DOMAIN db THEN db[k] ELSE <<>>

\* m[k] = v
MapPut(db, k, v) == [x \in DOMAIN db \cup {k} |-> IF x = k THEN v ELSE db[x]]

(* ---------------- keys and signatures ---------------- *)
\* A PEM input: whether it has PEM framing, and the DER payload in it.
RsaPem(id, bits) == [framed |-> TRUE, der |-> [type |-> "rsa", id |-> id, bits |-> bits]]
EcPem == [framed |-> TRUE, der |-> [type |-> "ecdsa", id |-> "ec", bits |-> 256]]
GarbagePem == [framed |-> TRUE, der |-> [type |-> "garbage", id |-> "none", bits |-> 0]]
NoPem == [framed |-> FALSE, der |-> [type |-> "garbage", id |-> "none", bits |-> 0]]

\* the nil *rsa.PublicKey, and the nil interface value of a failed parse
NilKey == [type |-> "nil", id |-> "none", bits |-> 0]

\* pem.Decode: the block, a nil pointer when no PEM framing is found
PemDecode(p) == [nil |-> ~p.framed, Bytes |-> p.der]

\* x509.ParsePKIXPublicKey: a typed public key, or an error
ParsePKIXPublicKey(der) ==
    IF der.type = "garbage" THEN [key |-> NilKey, err |-> TRUE] ELSE [key |-> der, err |-> FALSE]

\* pub.(*rsa.PublicKey) in the two-value form: nil when the key is of another type
AssertRSA(key) == IF key.type = "rsa" THEN key ELSE NilKey

\* rsa.EncryptOAEP with sha256: ErrMessageTooLong when the message does not fit
EncryptOAEPErr(pub, msgLen) == msgLen > (pub.bits \div 8) - 2 * HashLen - 2

\* rsa.EncryptPKCS1v15: ErrMessageTooLong when the message does not fit
EncryptPKCS1v15Err(pub, msgLen) == msgLen > (pub.bits \div 8) - 11

\* A signature names the key that made it and the digest it was made over.
Sign(id, hashed, len) == [signer |-> id, hashed |-> hashed, len |-> len]

\* rsa.VerifyPKCS1v15(pub, crypto.SHA256, hashed, sig): TRUE is a nil error
VerifyPKCS1v15(pub, hashed, sig) == sig.signer = pub.id /\ sig.hashed = hashed

\* h := sha256.Sum256(append(rth.Rth, rth.Nonce...))
RthDigest(r) == Sha256(r.Rth \o r.Nonce)

(* ---------------- what the environment can supply ---------------- *)
RootHash == <<7, 7>>
OldNonce == <<98>>

\* GetRootTreeHash responses: a fresh commitment, a replayed older one (its own
\* nonce, validly signed), a fresh nonce under a signature by another key, a
\* fresh signature returned with another nonce, and a truncated signature.
RthResponses ==
    { [Rth |-> RootHash, Nonce |-> SentNonce,
       Sig |-> Sign("ver", Sha256(RootHash \o SentNonce), 256)],
      [Rth |-> RootHash, Nonce |-> OldNonce,
       Sig |-> Sign("ver", Sha256(RootHash \o OldNonce), 256)],
      [Rth |-> RootHash, Nonce |-> SentNonce,
       Sig |-> Sign("other", Sha256(RootHash \o SentNonce), 256)],
      [Rth |-> RootHash, Nonce |-> OldNonce,
       Sig |-> Sign("ver", Sha256(RootHash \o SentNonce), 256)],
      [Rth |-> RootHash, Nonce |-> SentNonce,
       Sig |-> Sign("other", <<>>, 0)] }

EncPems == {RsaPem("enc", 2048), RsaPem("enc", 512), EcPem, GarbagePem, NoPem}
VerPems == {RsaPem("ver", 2048), EcPem, GarbagePem, NoPem}

Ct1 == <<104, 105>>
Ct2 == <<1>>
CtAbsent == <<9>>

\* lines of test_set/records.csv
RecordLines ==
    { <<"A", "1", ",", "a", "G", "k", "=">>,
      <<"F", "6", ",", "a", "G", "k", "=">>,
      <<"B", "2", ",", "A", "Q", "=", "=">>,
      <<"C", "3", ",", "a", "!", "k", "=">>,
      <<"D", "4">> }

ProofLine(digestHex, pop, poe) == digestHex \o <<" ">> \o pop \o <<" ">> \o poe

\* lines of test_set/records_proofs.csv
ProofLines ==
    { ProofLine(HexEncode(Sha256(Ct1)), <<"p", "1">>, <<"e", "1">>),
      ProofLine(HexEncode(Sha256(Ct2)), <<"p", "2">>, <<"e", "2">>),
      ProofLine(HexEncode(Sha256(CtAbsent)), <<"p", "3">>, <<"e", "3">>),
      ProofLine(<<"z", "z">>, <<"p", "4">>, <<"e", "4">>),
      ProofLine(HexEncode(Sha256(Ct1)) \o <<"z">>, <<"p", "5">>, <<"e", "5">>),
      HexEncode(Sha256(Ct1)) \o <<" ", "p", "6">>,
      <<>> }

\* DecryptRecord results: an error, or a response with its Plaintext
DecryptResults ==
    { [err |-> TRUE, Plaintext |-> <<>>],
      [err |-> FALSE, Plaintext |-> <<>>],
      [err |-> FALSE, Plaintext |-> <<42>>] }

(* ---------------- state ---------------- *)
VARIABLES
    pc,              \* position of main()
    abortAt,         \* source line of the log.Fatal or panic that ended the run, 0 if none
    hexPrefix,       \* the build's hex.DecodeString returns the decoded prefix on error
    rth,             \* response of GetRootTreeHash
    pk,              \* response of GetPublicKey
    rsaEncPub,       \* line 70
    rsaVerPub,       \* line 71
    sampleCiphertext,\* line 77
    verifyErr,       \* err of line 115: "unset", "nil" or "ErrVerification"
    ctDB,            \* line 122
    recordsRead,     \* lines the records.csv scanner has yielded
    b64Err,          \* err of line 135 for the last line read
    ledger,          \* lines the records_proofs.csv scanner has yielded
    presenceDB,      \* line 155
    extensionDB,     \* line 156
    requests,        \* DecryptRecord requests sent, with the line and ctSum behind each
    resp,            \* (r, err) of the last DecryptRecord call
    outcomes         \* what was logged or printed for each returned call

vars == <<pc, abortAt, hexPrefix, rth, pk, rsaEncPub, rsaVerPub, sampleCiphertext, verifyErr,
          ctDB, recordsRead, b64Err, ledger, presenceDB, extensionDB, requests, resp, outcomes>>

keyVars == <<rth, pk, rsaEncPub, rsaVerPub, sampleCiphertext, verifyErr>>
recordVars == <<ctDB, recordsRead, b64Err>>
proofVars == <<ledger, presenceDB, extensionDB, requests, resp, outcomes>>

EmptyMap == [x \in {} |-> <<>>]

\* zero values of the locals before they are assigned
NoRth == [Rth |-> <<>>, Nonce |-> <<>>, Sig |-> Sign("none", <<>>, 0)]
NoPk == [RSA_EncryptionKey |-> NoPem, RSA_VerificationKey |-> NoPem]
NoCiphertext == [key |-> "none", len |-> 0]
NoResp == [err |-> FALSE, Plaintext |-> <<>>]

Init ==
    /\ pc = "Dial"
    /\ abortAt = 0
    /\ hexPrefix \in BOOLEAN
    /\ rth = NoRth
    /\ pk = NoPk
    /\ rsaEncPub = NilKey
    /\ rsaVerPub = NilKey
    /\ sampleCiphertext = NoCiphertext
    /\ verifyErr = "unset"
    /\ ctDB = EmptyMap
    /\ recordsRead = 0
    /\ b64Err = FALSE
    /\ ledger = <<>>
    /\ presenceDB = EmptyMap
    /\ extensionDB = EmptyMap
    /\ requests = <<>>
    /\ resp = NoResp
    /\ outcomes = <<>>

\* log.Fatal / log.Fatalf: os.Exit(1) at the given line
Fatal(line) == pc' = "Fatal" /\ abortAt' = line

\* panic(...) or a run-time panic at the given line
Panic(line) == pc' = "Panic" /\ abortAt' = line

Goto(label) == pc' = label /\ abortAt' = abortAt

(* ---------------- trust establishment, lines 36-119 ---------------- *)
\* grpc.Dial
Dial ==
    /\ pc = "Dial"
    /\ \E ok \in BOOLEAN : IF ok THEN Goto("GetRootTreeHash") ELSE Fatal(38)
    /\ UNCHANGED <<hexPrefix, keyVars, recordVars, proofVars>>

\* c.GetRootTreeHash with Nonce "aaaaaaaaa", and the log line slicing rth.Sig[:31]
GetRootTreeHash ==
    /\ pc = "GetRootTreeHash"
    /\ \/ /\ Fatal(46)
          /\ rth' = rth
       \/ \E r \in RthResponses :
             /\ rth' = r
             /\ IF r.Sig.len < SigPrefix THEN Panic(48) ELSE Goto("GetPublicKey")
    /\ UNCHANGED <<hexPrefix, pk, rsaEncPub, rsaVerPub, sampleCiphertext, verifyErr,
                   recordVars, proofVars>>

\* c.GetPublicKey
GetPublicKey ==
    /\ pc = "GetPublicKey"
    /\ \/ /\ Fatal(53)
          /\ pk' = pk
       \/ \E e \in EncPems, v \in VerPems :
             /\ pk' = [RSA_EncryptionKey |-> e, RSA_VerificationKey |-> v]
             /\ Goto("ImportKeys")
    /\ UNCHANGED <<hexPrefix, rth, rsaEncPub, rsaVerPub, sampleCiphertext, verifyErr,
                   recordVars, proofVars>>

\* import public keys, lines 58-71.  encBlock.Bytes and verBlock.Bytes
\* dereference the block pointer; the type assertions discard their ok.
ImportKeys ==
    /\ pc = "ImportKeys"
    /\ LET encBlock == PemDecode(pk.RSA_EncryptionKey)
           verBlock == PemDecode(pk.RSA_VerificationKey)
           encPub == ParsePKIXPublicKey(encBlock.Bytes)
           verPub == ParsePKIXPublicKey(verBlock.Bytes)
       IN  IF encBlock.nil THEN Panic(61) /\ UNCHANGED <<rsaEncPub, rsaVerPub>>
           ELSE IF encPub.err THEN Panic(63) /\ UNCHANGED <<rsaEncPub, rsaVerPub>>
           ELSE IF verBlock.nil THEN Panic(65) /\ UNCHANGED <<rsaEncPub, rsaVerPub>>
           ELSE IF verPub.err THEN Panic(67) /\ UNCHANGED <<rsaEncPub, rsaVerPub>>
           ELSE /\ rsaEncPub' = AssertRSA(encPub.key)
                /\ rsaVerPub' = AssertRSA(verPub.key)
                /\ Goto("EncryptTest")
    /\ UNCHANGED <<hexPrefix, rth, pk, sampleCiphertext, verifyErr, recordVars, proofVars>>

\* the request of the rsaSpecTest block, which belongs to no ledger line
SampleRequest(ct, pop) ==
    [line |-> 0, digest |-> <<>>, ctSum |-> Zeros(SumLen),
     Ciphertext |-> ct, ProofOfPresence |-> pop, ProofOfExtension |-> <<"{", "}">>]

\* test encryption with both paddings, lines 74-110; EncryptOAEP dereferences
\* the key
EncryptTest ==
    /\ pc = "EncryptTest"
    /\ IF rsaEncPub = NilKey
       THEN Panic(77) /\ UNCHANGED <<sampleCiphertext, requests, outcomes>>
       ELSE IF EncryptOAEPErr(rsaEncPub, OAEPSampleLen)
       THEN Fatal(79) /\ UNCHANGED <<sampleCiphertext, requests, outcomes>>
       ELSE /\ sampleCiphertext' = [key |-> rsaEncPub.id, len |-> rsaEncPub.bits \div 8]
            /\ IF EncryptPKCS1v15Err(rsaEncPub, PKCS1v15SampleLen)
               THEN Fatal(86) /\ UNCHANGED <<requests, outcomes>>
               ELSE /\ Goto("VerifyRTH")
                    /\ IF rsaSpecTest
                       THEN \E r1 \in DecryptResults, r2 \in DecryptResults :
                               /\ requests' = requests \o
                                     << SampleRequest(<<1>>, <<"o">>), SampleRequest(<<2>>, <<"p">>) >>
                               /\ outcomes' = outcomes \o
                                     << [line |-> 0, ctSum |-> Zeros(SumLen), err |-> r1.err, shown |-> r1.Plaintext],
                                        [line |-> 0, ctSum |-> Zeros(SumLen), err |-> r2.err, shown |-> r2.Plaintext] >>
                       ELSE UNCHANGED <<requests, outcomes>>
    /\ UNCHANGED <<hexPrefix, rth, pk, rsaEncPub, rsaVerPub, verifyErr, recordVars,
                   ledger, presenceDB, extensionDB, resp>>

\* what main does with the err of rsa.VerifyPKCS1v15, lines 116-119: it logs
\* the failure and goes on to the next statement
AfterVerify(ok) == "OpenRecords"

\* Verify RTH, lines 113-119; VerifyPKCS1v15 dereferences the key
VerifyRTH ==
    /\ pc = "VerifyRTH"
    /\ IF rsaVerPub = NilKey
       THEN Panic(115) /\ verifyErr' = verifyErr
       ELSE LET ok == VerifyPKCS1v15(rsaVerPub, RthDigest(rth), rth.Sig)
            IN  /\ verifyErr' = IF ok THEN "nil" ELSE "ErrVerification"
                /\ Goto(AfterVerify(ok))
    /\ UNCHANGED <<hexPrefix, rth, pk, rsaEncPub, rsaVerPub, sampleCiphertext,
                   recordVars, proofVars>>

(* ---------------- ciphertext index, lines 121-146 ---------------- *)
\* os.Open("test_set/records.csv")
OpenRecords ==
    /\ pc = "OpenRecords"
    /\ \E ok \in BOOLEAN : IF ok THEN Goto("ScanRecords") ELSE Fatal(126)
    /\ UNCHANGED <<hexPrefix, keyVars, recordVars, proofVars>>

\* a loader that overlooks the err of base64 DecodeString
DecodeErrIgnored(err) == FALSE

\* lines 138-140: whether the err of base64 DecodeString ends the run
DecodeErrIsFatal(err) == err

\* one iteration of the records.csv loop, lines 132-142; line[1] needs a
\* second comma-separated field
ScanRecordLine ==
    /\ pc = "ScanRecords"
    /\ recordsRead < MaxRecords
    /\ \E text \in RecordLines :
          LET line == Split(text, ",")
          IN  /\ recordsRead' = recordsRead + 1
              /\ IF Len(line) < 2
                 THEN Panic(135) /\ UNCHANGED <<ctDB, b64Err>>
                 ELSE LET dec == Base64Decode(line[2])
                          ct == dec.bytes
                          ctSum == Sha256(ct)
                      IN  /\ b64Err' = dec.err
                          /\ IF DecodeErrIsFatal(dec.err)
                             THEN Fatal(139) /\ ctDB' = ctDB
                             ELSE Goto("ScanRecords") /\ ctDB' = MapPut(ctDB, ctSum, ct)
    /\ UNCHANGED <<hexPrefix, keyVars, proofVars>>

\* the records.csv scanner stops: end of file, or scanner.Err(), lines 144-146
ScanRecordsEnd ==
    /\ pc = "ScanRecords"
    /\ \E ok \in BOOLEAN : IF ok THEN Goto("OpenProofs") ELSE Fatal(145)
    /\ UNCHANGED <<hexPrefix, keyVars, recordVars, proofVars>>

(* ---------------- proof ledger and decryption, lines 148-188 ---------------- *)
\* os.Open("test_set/records_proofs.csv")
OpenProofs ==
    /\ pc = "OpenProofs"
    /\ \E ok \in BOOLEAN : IF ok THEN Goto("ScanProofs") ELSE Fatal(151)
    /\ UNCHANGED <<hexPrefix, keyVars, recordVars, proofVars>>

\* lines 167-176: the DecryptionRequest assembled for a split proof line
AssembleRequest(line, n, db, prefix) ==
    LET ctSumSlice == HexDecodeString(line[1], prefix).bytes
        ctSum == CopyToSum(ctSumSlice)
    IN  [line |-> n, digest |-> ctSumSlice, ctSum |-> ctSum,
         Ciphertext |-> MapGet(db, ctSum),
         ProofOfPresence |-> line[2], ProofOfExtension |-> line[3]]

\* one iteration of the proofs loop up to the DecryptRecord call, lines
\* 161-176; line[1] and line[2] need three space-separated fields
ScanProofLine ==
    /\ pc = "ScanProofs"
    /\ Len(ledger) < MaxProofs
    /\ \E text \in ProofLines :
          LET line == Split(text, " ")
          IN  /\ ledger' = Append(ledger, text)
              /\ IF Len(line) < 2
                 THEN Panic(164) /\ UNCHANGED <<presenceDB, extensionDB, requests>>
                 ELSE /\ presenceDB' = MapPut(presenceDB, line[1], line[2])
                      /\ IF Len(line) < 3
                         THEN Panic(165) /\ UNCHANGED <<extensionDB, requests>>
                         ELSE /\ extensionDB' = MapPut(extensionDB, line[1], line[3])
                              /\ requests' = Append(requests,
                                    AssembleRequest(line, Len(ledger) + 1, ctDB, hexPrefix))
                              /\ Goto("DecryptRecord")
    /\ UNCHANGED <<hexPrefix, keyVars, recordVars, resp, outcomes>>

\* lines 177-182: where main goes with the (r, err) of DecryptRecord;
\* r.Plaintext[0] indexes the plaintext
AfterDecrypt(r) ==
    IF r.err THEN "ScanProofs"
    ELSE IF Len(r.Plaintext) = 0 THEN "Panic"
    ELSE "ScanProofs"

\* the DecryptRecord call returns, lines 176-182
DecryptReturn ==
    /\ pc = "DecryptRecord"
    /\ \E r \in DecryptResults :
          LET req == requests[Len(requests)]
              to == AfterDecrypt(r)
          IN  /\ resp' = r
              /\ pc' = to
              /\ abortAt' = IF to = "Panic" THEN 180 ELSE IF to = "Fatal" THEN 178 ELSE abortAt
              /\ outcomes' =
                    IF r.err
                    THEN Append(outcomes, [line |-> req.line, ctSum |-> req.ctSum,
                                           err |-> TRUE, shown |-> <<>>])
                    ELSE IF Len(r.Plaintext) = 0 THEN outcomes
                    ELSE Append(outcomes, [line |-> req.line, ctSum |-> req.ctSum,
                                           err |-> FALSE, shown |-> <<r.Plaintext[1]>>])
    /\ UNCHANGED <<hexPrefix, keyVars, recordVars, ledger, presenceDB, extensionDB, requests>>

\* the proofs scanner stops: end of file, or scanner.Err(), lines 186-188
ScanProofsEnd ==
    /\ pc = "ScanProofs"
    /\ \E ok \in BOOLEAN : IF ok THEN Goto("Done") ELSE Fatal(187)
    /\ UNCHANGED <<hexPrefix, keyVars, recordVars, proofVars>>

Next ==
    \/ Dial
    \/ GetRootTreeHash
    \/ GetPublicKey
    \/ ImportKeys
    \/ EncryptTest
    \/ VerifyRTH
    \/ OpenRecords
    \/ ScanRecordLine
    \/ ScanRecordsEnd
    \/ OpenProofs
    \/ ScanProofLine
    \/ DecryptReturn
    \/ ScanProofsEnd

Spec == Init /\ [][Next]_vars

TypeOK ==
    /\ pc \in {"Dial", "GetRootTreeHash", "GetPublicKey", "ImportKeys", "EncryptTest",
               "VerifyRTH", "OpenRecords", "ScanRecords", "OpenProofs", "ScanProofs",
               "DecryptRecord", "Done", "Fatal", "Panic"}
    /\ verifyErr \in {"unset", "nil", "ErrVerification"}
    /\ recordsRead \in 0..MaxRecords
    /\ Len(ledger) <= MaxProofs
    /\ Len(outcomes) <= Len(requests)

(* ---------------- vocabulary of the properties ---------------- *)
Fields(text) == Split(text, " ")

\* the digest a ledger line names: its first field, hex-decoded
NamedDigest(text) == HexDecodeString(Fields(text)[1], TRUE)

\* a ledger line with fewer than three fields or with malformed hex
Malformed(text) == Len(Fields(text)) < 3 \/ NamedDigest(text).err

\* ledger line i names a digest that the ciphertext index holds
Reconciled(i) == ~Malformed(ledger[i]) /\ NamedDigest(ledger[i]).bytes \in DOMAIN ctDB

RequestsFor(i) == {j \in 1..Len(requests) : requests[j].line = i}
OutcomesFor(i) == {j \in 1..Len(outcomes) : outcomes[j].line = i}

\* the proofs file has been opened: both fixtures are loaded
Loaded == pc \in {"ScanProofs", "DecryptRecord", "Done"} \/ abortAt >= 164

(* ---------------- properties ---------------- *)
\* C1: when verification of rth.Sig over sha256(rootHash ++ nonce) has failed,
\* no DecryptRecord request for a ledger record is ever issued.
C1_VerifyIsHardGate ==
    verifyErr = "ErrVerification" => \A j \in 1..Len(requests) : requests[j].line = 0

\* C2: a root commitment whose nonce differs from the nonce the client sent is
\* never accepted as verified, whatever its signature.
C2_FreshnessBinding ==
    (verifyErr # "unset" /\ rth.Nonce # SentNonce) => verifyErr = "ErrVerification"

\* C3: a ledger line whose digest has no entry in the ciphertext index gets no
\* request and no outcome, and an index entry whose digest is on no ledger
\* line gets no request.
C3_Reconciliation ==
    /\ \A i \in 1..Len(ledger) :
          (~Malformed(ledger[i]) /\ ~Reconciled(i)) => RequestsFor(i) = {} /\ OutcomesFor(i) = {}
    /\ \A k \in DOMAIN ctDB :
          (\A i \in 1..Len(ledger) :
              Len(Fields(ledger[i])) >= 3 => NamedDigest(ledger[i]).bytes # k)
          => \A j \in 1..Len(requests) : requests[j].line > 0 => requests[j].ctSum # k

\* C4: after DecryptRecord returned an error for one ledger record, every later
\* reconciled record of the ledger still gets its own request and, once its
\* call is over, its own outcome.
C4_PerItemIsolation ==
    \A e \in 1..Len(outcomes) :
        outcomes[e].err =>
            \A i \in (outcomes[e].line + 1)..Len(ledger) :
                Reconciled(i) =>
                    /\ Cardinality(RequestsFor(i)) = 1
                    /\ \/ Cardinality(OutcomesFor(i)) = 1
                       \/ i = Len(ledger) /\ pc = "DecryptRecord"

\* C5: every request issued from a ledger line that names a digest carries the
\* index's ciphertext whose sha256 is that digest, with the two tokens of that
\* line; and the index maps each key to a ciphertext with that sha256.
C5_RequestMatchesLine ==
    /\ \A j \in 1..Len(requests) :
          (requests[j].line > 0 /\ ~Malformed(ledger[requests[j].line])) =>
              LET f == Fields(ledger[requests[j].line])
              IN  /\ requests[j].ctSum \in DOMAIN ctDB
                  /\ requests[j].Ciphertext = ctDB[requests[j].ctSum]
                  /\ Sha256(requests[j].Ciphertext) = HexDecodeString(f[1], TRUE).bytes
                  /\ requests[j].ProofOfPresence = f[2]
                  /\ requests[j].ProofOfExtension = f[3]
    /\ \A k \in DOMAIN ctDB : Sha256(ctDB[k]) = k

\* the reconciled ledger lines, in ledger order
ReconciledLines == SelectSeq([i \in 1..Len(ledger) |-> i], LAMBDA i : Reconciled(i))

\* C6: requests go out one at a time, and the finished batch has exactly one
\* outcome per reconciled digest, in ledger order.
C6_OneOutcomePerReconciled ==
    /\ Len(requests) <= Len(outcomes) + 1
    /\ pc = "Done" => [j \in 1..Len(outcomes) |-> outcomes[j].line] = ReconciledLines

\* C7: once both fixtures are loaded and the ledger lines have their three
\* fields, no oracle result makes the run abort midway.
C7_BatchFinishes ==
    (Loaded /\ \A i \in 1..Len(ledger) : Len(Fields(ledger[i])) >= 3) => pc # "Panic"

\* C8: a malformed ledger line gets no DecryptRecord request and does not stop
\* the processing of the ledger.
C8_MalformedIsolated ==
    \A i \in 1..Len(ledger) :
        Malformed(ledger[i]) => RequestsFor(i) = {} /\ ~(pc = "Panic" /\ abortAt \in {164, 165})

\* C9: when the base64 field of a ciphertext-table line fails to decode, the
\* run ends there with log.Fatal: the ledger is never read and no DecryptRecord
\* request for a ledger record is issued.
C9_LoadAllOrNothing ==
    b64Err =>
        /\ pc = "Fatal"
        /\ abortAt = 139
        /\ ledger = <<>>
        /\ \A j \in 1..Len(requests) : requests[j].line = 0

\* C9 witness: a line failed to decode after an earlier line had been indexed.
C9_Witness == b64Err /\ pc = "Fatal" /\ DOMAIN ctDB # {}

\* C10: when a key PEM has no framing or its DER payload is not an RSA public
\* key, nothing is encrypted, verified or requested with the imported keys.
C10_ImportFailureAborts ==
    (\/ ~pk.RSA_EncryptionKey.framed
     \/ ~pk.RSA_VerificationKey.framed
     \/ pk.RSA_EncryptionKey.der.type # "rsa"
     \/ pk.RSA_VerificationKey.der.type # "rsa")
    => sampleCiphertext = NoCiphertext /\ verifyErr = "unset" /\ requests = <<>>

====
